---------------------------- MODULE Spec2Model ----------------------------
(***************************************************************************)
(* Model of the Move ABI metadata codec (move-to-yul/abi_move_metadata.rs, *)
(* move-abi/abi_move_type.rs) and of the model builder options             *)
(* (move-model/options.rs).                                                *)
(*                                                                         *)
(* Strings are sequences of bytes (naturals 0..255), so that the ordering  *)
(* of BTreeMap<String, _> keys is the byte-wise lexicographic order of     *)
(* Rust's String.  A JSON text is a sequence of tokens: the lexical layer  *)
(* (whitespace of the pretty printer, quoting) is dropped, the structure   *)
(* (braces, brackets, colons, commas, strings, literals) is kept and is    *)
(* parsed back by a recursive descent parser.  A token "\xFF" stands for a *)
(* byte that makes the buffer invalid UTF-8.                               *)
(***************************************************************************)
EXTENDS Naturals, Integers, Sequences, FiniteSets, TLC

VARIABLES
    event_signature_map,    \* ctx.event_signature_map : event key -> EventSignature
    callable_function_map,  \* ctx.callable_function_map : function key -> <<SoliditySignature, attr>>
    phase,                  \* "compile" while the registries are filled, "emit" afterwards
    store,                  \* the module's metadata: a sequence of Metadata {key, value}
    origin,                 \* for each store entry, who produced it and how
    results,                \* for each store entry, the outcome of parse_metadata_to_move_sig
    table,                  \* codec round trip: the ABIMoveSignature being encoded
    entry,                  \* codec round trip: the Metadata produced from table (Option)
    decoded,                \* codec round trip: outcome of parsing entry (Option)
    doc,                    \* options: the configuration document last loaded
    loaded,                 \* options: how the options were made, and the value (Option)
    selector                \* options: results of the three NumRepresentation predicates (Option)

vars == <<event_signature_map, callable_function_map, phase, store, origin, results,
          table, entry, decoded, doc, loaded, selector>>

abiVars == <<event_signature_map, callable_function_map, phase, store, origin, results>>
codecVars == <<table, entry, decoded>>
optVars == <<doc, loaded, selector>>

----------------------------------------------------------------------------
(* Bounds *)

MaxStore == 2       \* entries in the metadata store
MaxEntries == 2     \* entries per map of a table drawn for the round trip
MaxPipeline == 1    \* passes in a simplification pipeline of a document

----------------------------------------------------------------------------
(* Strings as byte sequences, String's Ord *)

RECURSIVE StrLess(_, _)
StrLess(a, b) ==
    IF Len(b) = 0 THEN FALSE
    ELSE IF Len(a) = 0 THEN TRUE
    ELSE IF a[1] # b[1] THEN a[1] < b[1]
    ELSE StrLess(Tail(a), Tail(b))

\* str::from_utf8: well-formedness of a byte sequence (RFC 3629 table)
Cont(b) == b >= 128 /\ b <= 191

RECURSIVE IsUtf8(_)
IsUtf8(bs) ==
    IF Len(bs) = 0 THEN TRUE
    ELSE LET b == bs[1] IN
      IF b < 128 THEN IsUtf8(Tail(bs))
      ELSE IF b >= 194 /\ b <= 223
        THEN Len(bs) >= 2 /\ Cont(bs[2]) /\ IsUtf8(SubSeq(bs, 3, Len(bs)))
      ELSE IF b >= 224 /\ b <= 239
        THEN /\ Len(bs) >= 3 /\ Cont(bs[2]) /\ Cont(bs[3])
             /\ (b = 224 => bs[2] >= 160)
             /\ (b = 237 => bs[2] <= 159)
             /\ IsUtf8(SubSeq(bs, 4, Len(bs)))
      ELSE IF b >= 240 /\ b <= 244
        THEN /\ Len(bs) >= 4 /\ Cont(bs[2]) /\ Cont(bs[3]) /\ Cont(bs[4])
             /\ (b = 240 => bs[2] >= 144)
             /\ (b = 244 => bs[2] <= 143)
             /\ IsUtf8(SubSeq(bs, 5, Len(bs)))
      ELSE FALSE

\* "abi_move"
ABI_MOVE_KEY == <<97, 98, 105, 95, 109, 111, 118, 101>>

\* field names of the serialized records
EVENT_MAP == <<101, 118, 101, 110, 116, 95, 109, 97, 112>>   \* "event_map"
FUNC_MAP == <<102, 117, 110, 99, 95, 109, 97, 112>>          \* "func_map"
F_NAME == <<110, 97, 109, 101>>                              \* "name"
F_KIND == <<107, 105, 110, 100>>                             \* "kind"
F_PARAMETERS == <<112, 97, 114, 97, 109, 115>>               \* "params"
F_ATTRIBUTES == <<97, 116, 116, 114, 115>>                   \* "attrs"
F_TYPE == <<116, 121, 112, 101>>                             \* "type"
F_INDEXED == <<105, 110, 100, 101, 120, 101, 100>>           \* "indexed"
K_EVENT == <<101, 118, 101, 110, 116>>                       \* "event"
K_FUNCTION == <<102, 117, 110, 99, 116, 105, 111, 110>>      \* "function"

----------------------------------------------------------------------------
(* BTreeMap<String, V>: a sequence of [k, v] with strictly ascending keys *)

BTreeNew == <<>>

Keys(m) == [i \in 1..Len(m) |-> m[i].k]

HasKey(m, k) == \E i \in 1..Len(m) : m[i].k = k

Get(m, k) == m[CHOOSE i \in 1..Len(m) : m[i].k = k].v

IsSorted(m) == \A i \in 1..Len(m) - 1 : StrLess(m[i].k, m[i + 1].k)

\* BTreeMap::insert: replaces the value of an equal key, otherwise inserts
\* at the key's place in the order
BTreeInsert(m, k, v) ==
    IF HasKey(m, k)
    THEN [i \in 1..Len(m) |-> IF m[i].k = k THEN [k |-> k, v |-> v] ELSE m[i]]
    ELSE LET n == Cardinality({i \in 1..Len(m) : StrLess(m[i].k, k)})
         IN SubSeq(m, 1, n) \o <<[k |-> k, v |-> v]>> \o SubSeq(m, n + 1, Len(m))


----------------------------------------------------------------------------
(* ABI signature records (move-abi, abi_signature_type) and the context's   *)
(* signatures they are translated from                                      *)

\* Option<T> is a sequence of length 0 (None) or 1 (Some)
None == <<>>
Some(x) == <<x>>

\* from_event_sig: one parameter per field, in declared order, each with
\* its indexed flag; kind "event", no attribute
from_event_sig(ev) ==
    [name |-> ev.name,
     kind |-> K_EVENT,
     parameters |-> [i \in 1..Len(ev.fields) |->
                        [ty |-> ev.fields[i].ty, indexed |-> Some(ev.fields[i].indexed)]],
     attributes |-> None]

\* from_solidity_sig(sig, attr, kind): one parameter per argument, in
\* declared order, the attribute attached verbatim
from_solidity_sig(sig, attr, kind) ==
    [name |-> sig.name,
     kind |-> kind,
     parameters |-> [i \in 1..Len(sig.params) |-> [ty |-> sig.params[i], indexed |-> None]],
     attributes |-> attr]

----------------------------------------------------------------------------
(* JSON texts as token sequences *)

Tok(t) == [t |-> t, s |-> <<>>]
TStr(s) == [t |-> "str", s |-> s]
TBool(b) == IF b THEN Tok("true") ELSE Tok("false")
BadByte == Tok("\\xFF")

\* the buffer is valid UTF-8 iff it holds no invalid byte and every string
\* in it is valid UTF-8
ValueIsUtf8(toks) == \A i \in 1..Len(toks) : toks[i] # BadByte /\ IsUtf8(toks[i].s)

\* items, separated by commas
RECURSIVE Join(_)
Join(items) ==
    IF Len(items) = 0 THEN <<>>
    ELSE IF Len(items) = 1 THEN items[1]
    ELSE items[1] \o <<Tok(",")>> \o Join(Tail(items))

SerObject(members) == <<Tok("{")>> \o Join(members) \o <<Tok("}")>>
SerArray(items) == <<Tok("[")>> \o Join(items) \o <<Tok("]")>>
SerField(name, toks) == <<TStr(name), Tok(":")>> \o toks

\* Serialize for the signature records: fields in declaration order, an
\* absent option is left out
SerParam(p) ==
    SerObject(<<SerField(F_TYPE, <<TStr(p.ty)>>)>>
              \o (IF p.indexed = None THEN <<>>
                  ELSE <<SerField(F_INDEXED, <<TBool(p.indexed[1])>>)>>))

SerSig(sig) ==
    SerObject(<<SerField(F_NAME, <<TStr(sig.name)>>),
                SerField(F_KIND, <<TStr(sig.kind)>>),
                SerField(F_PARAMETERS,
                         SerArray([i \in 1..Len(sig.parameters) |-> SerParam(sig.parameters[i])]))>>
              \o (IF sig.attributes = None THEN <<>>
                  ELSE <<SerField(F_ATTRIBUTES, <<TStr(sig.attributes[1])>>)>>))

\* Serialize for BTreeMap<String, ABIJsonSignature>: a JSON object whose
\* members follow the map's iteration order
SerMap(m) == SerObject([i \in 1..Len(m) |-> SerField(m[i].k, SerSig(m[i].v))])

SerTableDropEmpty(t) ==
    SerObject((IF Len(t.event_map) = 0 THEN <<>> ELSE <<SerField(EVENT_MAP, SerMap(t.event_map))>>)
              \o (IF Len(t.func_map) = 0 THEN <<>> ELSE <<SerField(FUNC_MAP, SerMap(t.func_map))>>))

\* derive(Serialize) for ABIMoveSignature: the two fields, in declaration
\* order
SerTable(t) ==
    SerObject(<<SerField(EVENT_MAP, SerMap(t.event_map)),
                SerField(FUNC_MAP, SerMap(t.func_map))>>)

----------------------------------------------------------------------------
(* serde_json::from_str: the JSON grammar *)

\* a JSON value: t in {"obj", "arr", "str", "true", "false", "null"}; the
\* members of an object and the items of an array are kids [k, v]
JNull == [t |-> "null", s |-> <<>>, kids |-> <<>>]
PFail == [ok |-> FALSE, v |-> JNull, p |-> 0]
POk(v, p) == [ok |-> TRUE, v |-> v, p |-> p]

RECURSIVE ParseValue(_, _), ParseMembers(_, _, _), ParseItems(_, _, _)

ParseValue(toks, p) ==
    IF p > Len(toks) THEN PFail
    ELSE LET tk == toks[p] IN
      IF tk.t = "str" THEN POk([t |-> "str", s |-> tk.s, kids |-> <<>>], p + 1)
      ELSE IF tk.t \in {"true", "false", "null"}
        THEN POk([t |-> tk.t, s |-> <<>>, kids |-> <<>>], p + 1)
      ELSE IF tk.t = "{"
        THEN IF p + 1 <= Len(toks) /\ toks[p + 1].t = "}"
             THEN POk([t |-> "obj", s |-> <<>>, kids |-> <<>>], p + 2)
             ELSE ParseMembers(toks, p + 1, <<>>)
      ELSE IF tk.t = "["
        THEN IF p + 1 <= Len(toks) /\ toks[p + 1].t = "]"
             THEN POk([t |-> "arr", s |-> <<>>, kids |-> <<>>], p + 2)
             ELSE ParseItems(toks, p + 1, <<>>)
      ELSE PFail

\* string ":" value, then "," and another member, or "}"
ParseMembers(toks, p, acc) ==
    IF p + 1 > Len(toks) \/ toks[p].t # "str" \/ toks[p + 1].t # ":" THEN PFail
    ELSE LET r == ParseValue(toks, p + 2) IN
      IF ~r.ok \/ r.p > Len(toks) THEN PFail
      ELSE LET acc2 == Append(acc, [k |-> toks[p].s, v |-> r.v]) IN
        IF toks[r.p].t = "," THEN ParseMembers(toks, r.p + 1, acc2)
        ELSE IF toks[r.p].t = "}" THEN POk([t |-> "obj", s |-> <<>>, kids |-> acc2], r.p + 1)
        ELSE PFail

\* value, then "," and another item, or "]"
ParseItems(toks, p, acc) ==
    LET r == ParseValue(toks, p) IN
      IF ~r.ok \/ r.p > Len(toks) THEN PFail
      ELSE LET acc2 == Append(acc, [k |-> <<>>, v |-> r.v]) IN
        IF toks[r.p].t = "," THEN ParseItems(toks, r.p + 1, acc2)
        ELSE IF toks[r.p].t = "]" THEN POk([t |-> "arr", s |-> <<>>, kids |-> acc2], r.p + 1)
        ELSE PFail

\* a whole text: one value and nothing after it
ParseJson(toks) ==
    LET r == ParseValue(toks, 1) IN
      IF r.ok /\ r.p = Len(toks) + 1 THEN r ELSE PFail


----------------------------------------------------------------------------
(* Deserialize: from a JSON value to the typed records *)

DFail == [ok |-> FALSE, v |-> <<>>]
DOk(v) == [ok |-> TRUE, v |-> v]

Count(kids, name) == Cardinality({i \in 1..Len(kids) : kids[i].k = name})
Field(kids, name) == kids[CHOOSE i \in 1..Len(kids) : kids[i].k = name].v

\* a struct field of type Option<T>: missing or null is None
OptionalIs(kids, name, types) ==
    /\ Count(kids, name) <= 1
    /\ Count(kids, name) = 1 => Field(kids, name).t \in types \cup {"null"}

OptionalStr(kids, name) ==
    IF Count(kids, name) = 0 \/ Field(kids, name).t = "null" THEN None
    ELSE Some(Field(kids, name).s)

OptionalBool(kids, name) ==
    IF Count(kids, name) = 0 \/ Field(kids, name).t = "null" THEN None
    ELSE Some(Field(kids, name).t = "true")

\* a struct field that must be present exactly once, with one of the types
RequiredIs(kids, name, types) ==
    Count(kids, name) = 1 /\ Field(kids, name).t \in types

DeParam(v) ==
    IF /\ v.t = "obj"
       /\ RequiredIs(v.kids, F_TYPE, {"str"})
       /\ OptionalIs(v.kids, F_INDEXED, {"true", "false"})
    THEN DOk([ty |-> Field(v.kids, F_TYPE).s,
              indexed |-> OptionalBool(v.kids, F_INDEXED)])
    ELSE DFail

DeSig(v) ==
    IF /\ v.t = "obj"
       /\ RequiredIs(v.kids, F_NAME, {"str"})
       /\ RequiredIs(v.kids, F_KIND, {"str"})
       /\ RequiredIs(v.kids, F_PARAMETERS, {"arr"})
       /\ OptionalIs(v.kids, F_ATTRIBUTES, {"str"})
       /\ LET ps == Field(v.kids, F_PARAMETERS).kids
          IN \A i \in 1..Len(ps) : DeParam(ps[i].v).ok
    THEN LET ps == Field(v.kids, F_PARAMETERS).kids IN
         DOk([name |-> Field(v.kids, F_NAME).s,
              kind |-> Field(v.kids, F_KIND).s,
              parameters |-> [i \in 1..Len(ps) |-> DeParam(ps[i].v).v],
              attributes |-> OptionalStr(v.kids, F_ATTRIBUTES)])
    ELSE DFail

\* Deserialize for BTreeMap<String, ABIJsonSignature>: a JSON object; each
\* member is inserted in the order read, a repeated key replacing the
\* earlier value
RECURSIVE InsertAll(_, _)
InsertAll(m, kids) ==
    IF Len(kids) = 0 THEN m
    ELSE InsertAll(BTreeInsert(m, kids[1].k, DeSig(kids[1].v).v), Tail(kids))

DeMap(v) ==
    IF v.t = "obj" /\ \A i \in 1..Len(v.kids) : DeSig(v.kids[i].v).ok
    THEN DOk(InsertAll(BTreeNew, v.kids))
    ELSE DFail

DeTableLenient(v) ==
    IF v.t # "obj" \/ Count(v.kids, EVENT_MAP) > 1 \/ Count(v.kids, FUNC_MAP) > 1 THEN DFail
    ELSE LET e == IF Count(v.kids, EVENT_MAP) = 1 THEN DeMap(Field(v.kids, EVENT_MAP))
                  ELSE DOk(BTreeNew)
             f == IF Count(v.kids, FUNC_MAP) = 1 THEN DeMap(Field(v.kids, FUNC_MAP))
                  ELSE DOk(BTreeNew)
         IN DOk([event_map |-> IF e.ok THEN e.v ELSE BTreeNew,
                 func_map |-> IF f.ok THEN f.v ELSE BTreeNew])

\* derive(Deserialize) for ABIMoveSignature, without serde(default) and
\* without deny_unknown_fields: from a JSON object, each of the two fields
\* exactly once (a missing or a repeated field is an error) and any other
\* member skipped; or from a JSON array of exactly the two fields in order
DeTable(v) ==
    IF v.t = "obj"
    THEN IF /\ Count(v.kids, EVENT_MAP) = 1 /\ Count(v.kids, FUNC_MAP) = 1
            /\ DeMap(Field(v.kids, EVENT_MAP)).ok
            /\ DeMap(Field(v.kids, FUNC_MAP)).ok
         THEN DOk([event_map |-> DeMap(Field(v.kids, EVENT_MAP)).v,
                   func_map |-> DeMap(Field(v.kids, FUNC_MAP)).v])
         ELSE DFail
    ELSE IF v.t = "arr"
    THEN IF Len(v.kids) = 2 /\ DeMap(v.kids[1].v).ok /\ DeMap(v.kids[2].v).ok
         THEN DOk([event_map |-> DeMap(v.kids[1].v).v, func_map |-> DeMap(v.kids[2].v).v])
         ELSE DFail
    ELSE DFail

\* serde_json::from_str::<ABIMoveSignature>
from_str(toks) ==
    LET r == ParseJson(toks) IN IF r.ok THEN DeTable(r.v) ELSE DFail

----------------------------------------------------------------------------
(* abi_move_metadata.rs *)

\* outcomes of a call: a returned Option, or a panic (an unwrap of an Err)
RetNone == [kind |-> "None", table |-> <<>>]
RetSome(t) == [kind |-> "Some", table |-> <<t>>]
Panic == [kind |-> "Panic", table |-> <<>>]

Metadata(key, value) == [key |-> key, value |-> value]

encode_table_under_prefix(t) == Metadata(SubSeq(ABI_MOVE_KEY, 1, 3), SerTable(t))

\* lines 43-54: the table is serialized and tagged with ABI_MOVE_KEY
encode_table(t) == Metadata(ABI_MOVE_KEY, SerTable(t))

\* lines 58-66
parse_metadata_to_move_sig(metadata) ==
    IF ~IsUtf8(metadata.key) THEN Panic                      \* line 61, unwrap
    ELSE IF metadata.key = ABI_MOVE_KEY
    THEN IF ~ValueIsUtf8(metadata.value) THEN Panic          \* line 63, inner unwrap
         ELSE LET r == from_str(metadata.value) IN
              IF r.ok THEN RetSome(r.v) ELSE Panic           \* line 63, outer unwrap
    ELSE RetNone


----------------------------------------------------------------------------
(* The compilation context, as far as ABI assembly reads it *)

\* type and attribute names
T_U8 == <<117, 56>>                              \* "u8"
T_U64 == <<117, 54, 52>>                         \* "u64"
T_ADDRESS == <<97, 100, 100, 114>>               \* "addr"
A_PAYABLE == <<112, 97, 121, 97, 98, 108, 101>>  \* "payable"
A_VIEW == <<118, 105, 101, 119>>                 \* "view"

\* QualifiedInstId: a module, a declared name and a type instantiation.
\* Two instantiations of struct b in module M, and struct ab in module N.
EventKeys ==
    {[module |-> "M", name |-> <<98>>, inst |-> T_U8],
     [module |-> "M", name |-> <<98>>, inst |-> T_U64],
     [module |-> "N", name |-> <<97, 98>>, inst |-> <<>>]}

\* function f of module M and function f of module N
FunKeys ==
    {[module |-> "M", name |-> <<102>>, inst |-> <<>>],
     [module |-> "N", name |-> <<102>>, inst |-> <<>>]}

Attrs == {A_PAYABLE, A_VIEW}

\* key.to_qualified_id(): the instantiation is dropped
to_qualified_id(key) == [module |-> key.module, name |-> key.name]

\* env.get_struct(qid).get_identifier() and env.get_function(qid)
\* .get_identifier(): the declared name, without the module
get_identifier(qid) == qid.name

\* the event signature the context derives from the struct: its fields in
\* declared order
EventSignatureOf(key) ==
    [name |-> key.name,
     fields |-> IF key.inst = <<>>
                THEN <<[ty |-> T_ADDRESS, indexed |-> TRUE], [ty |-> T_U8, indexed |-> FALSE]>>
                ELSE <<[ty |-> key.inst, indexed |-> FALSE]>>]

SoliditySignatureOf(key) ==
    [name |-> key.name,
     params |-> IF key.module = "M" THEN <<T_U8>> ELSE <<T_U64, T_ADDRESS>>]

\* the orders in which a registry with key set S may enumerate its keys
Orders(S) ==
    {o \in [1..Cardinality(S) -> S] : \A i, j \in DOMAIN o : i # j => o[i] # o[j]}

----------------------------------------------------------------------------
(* generate_abi_move_metadata *)

\* lines 20-33: for key in &event_sigs_keys { event_map.insert(..) }
RECURSIVE assemble_events(_, _, _)
assemble_events(m, sigs, order) ==
    IF Len(order) = 0 THEN m
    ELSE assemble_events(
           BTreeInsert(m, get_identifier(to_qualified_id(order[1])),
                       from_event_sig(sigs[order[1]])),
           sigs, Tail(order))

\* lines 36-41: for (key, (solidity_sig, attr)) in callable_function_map
RECURSIVE assemble_functions(_, _, _)
assemble_functions(m, funs, order) ==
    IF Len(order) = 0 THEN m
    ELSE assemble_functions(
           BTreeInsert(m, get_identifier(to_qualified_id(order[1])),
                       from_solidity_sig(funs[order[1]][1], Some(funs[order[1]][2]), K_FUNCTION)),
           funs, Tail(order))

\* lines 43-46
assemble(sigs, funs, eorder, forder) ==
    [event_map |-> assemble_events(BTreeNew, sigs, eorder),
     func_map |-> assemble_functions(BTreeNew, funs, forder)]

\* lines 19-55
generate_abi_move_metadata(sigs, funs, eorder, forder) ==
    encode_table(assemble(sigs, funs, eorder, forder))

----------------------------------------------------------------------------
(* Actions *)

Pending == [kind |-> "Pending", table |-> <<>>]

Push(m, tag) ==
    /\ Len(store) < MaxStore
    /\ store' = Append(store, m)
    /\ origin' = Append(origin, tag)
    /\ results' = Append(results, Pending)

\* the compiler registers an event struct with its signature
RegisterEvent ==
    /\ phase = "compile"
    /\ \E key \in EventKeys \ DOMAIN event_signature_map :
         event_signature_map' = event_signature_map @@ (key :> EventSignatureOf(key))
    /\ UNCHANGED <<callable_function_map, phase, store, origin, results, codecVars, optVars>>

\* the compiler registers a callable function with its attribute
RegisterFunction ==
    /\ phase = "compile"
    /\ \E key \in FunKeys \ DOMAIN callable_function_map, attr \in Attrs :
         callable_function_map' =
             callable_function_map @@ (key :> <<SoliditySignatureOf(key), attr>>)
    /\ UNCHANGED <<event_signature_map, phase, store, origin, results, codecVars, optVars>>

GenerateDraining ==
    /\ \E eorder \in Orders(DOMAIN event_signature_map),
          forder \in Orders(DOMAIN callable_function_map) :
         Push(generate_abi_move_metadata(event_signature_map, callable_function_map,
                                         eorder, forder), "generated")
    /\ phase' = "emit"
    /\ event_signature_map' = <<>>
    /\ UNCHANGED <<callable_function_map, codecVars, optVars>>

\* generate_abi_move_metadata(&ctx), after the registries are complete; the
\* registries enumerate their keys in some order; the entry returned is
\* attached to the module
GenerateAbiMoveMetadata ==
    /\ \E eorder \in Orders(DOMAIN event_signature_map),
          forder \in Orders(DOMAIN callable_function_map) :
         Push(generate_abi_move_metadata(event_signature_map, callable_function_map,
                                         eorder, forder), "generated")
    /\ phase' = "emit"
    /\ UNCHANGED <<event_signature_map, callable_function_map, codecVars, optVars>>

\* parse_metadata_to_move_sig(&store[i])
ParseMetadataToMoveSig ==
    /\ \E i \in 1..Len(store) :
         /\ results[i] = Pending
         /\ results' = [results EXCEPT ![i] = parse_metadata_to_move_sig(store[i])]
    /\ UNCHANGED <<event_signature_map, callable_function_map, phase, store, origin,
                   codecVars, optVars>>

InitCodecIdle ==
    /\ table = [event_map |-> BTreeNew, func_map |-> BTreeNew]
    /\ entry = None
    /\ decoded = None

InitAbi ==
    /\ event_signature_map = <<>>
    /\ callable_function_map = <<>>
    /\ phase = "compile"
    /\ store = <<>>
    /\ origin = <<>>
    /\ results = <<>>


----------------------------------------------------------------------------
(* The metadata store as other producers fill it *)

EmptyTable == [event_map |-> BTreeNew, func_map |-> BTreeNew]

SampleSigs ==
    {from_event_sig([name |-> <<98>>, fields |-> <<[ty |-> T_U8, indexed |-> TRUE]>>]),
     from_solidity_sig([name |-> <<102>>, params |-> <<T_U64, T_ADDRESS>>], Some(A_PAYABLE),
                       K_FUNCTION),
     from_solidity_sig([name |-> <<102>>, params |-> <<>>], None, K_FUNCTION)}

OneEventTable ==
    [event_map |-> <<[k |-> <<98>>,
                      v |-> from_event_sig([name |-> <<98>>,
                                            fields |-> <<[ty |-> T_U8, indexed |-> TRUE]>>])]>>,
     func_map |-> BTreeNew]

SampleTables == {EmptyTable, OneEventTable}

\* keys of entries owned by others: "x", "abi", a two-byte UTF-8 character,
\* and a byte sequence that is not UTF-8
ForeignKeys == {<<120>>, <<97, 98, 105>>, <<195, 169>>, <<255>>}

ForeignValues == {<<>>, SerTable(EmptyTable), <<BadByte>>}

\* payloads that are not a well-formed table: not UTF-8; a JSON text cut
\* short; a JSON object without func_map, or without event_map; event_map
\* of the wrong type
MalformedPayloads ==
    {[class |-> "invalid_utf8", value |-> Append(SerTable(EmptyTable), BadByte)],
     [class |-> "invalid_utf8", value |-> SerObject(<<SerField(<<255>>, SerMap(BTreeNew))>>)]}
    \cup {[class |-> "truncated", value |-> SubSeq(SerTable(EmptyTable), 1, n)] :
             n \in 0..Len(SerTable(EmptyTable)) - 1}
    \cup {[class |-> "truncated", value |-> SubSeq(SerTable(OneEventTable), 1, n)] :
             n \in {12, 20, Len(SerTable(OneEventTable)) - 1}}
    \cup {[class |-> "missing_field",
           value |-> SerObject(<<SerField(EVENT_MAP, SerMap(OneEventTable.event_map))>>)],
          [class |-> "missing_field",
           value |-> SerObject(<<SerField(FUNC_MAP, SerMap(BTreeNew))>>)],
          [class |-> "ill_typed",
           value |-> SerObject(<<SerField(EVENT_MAP, <<TStr(<<98>>)>>),
                                 SerField(FUNC_MAP, SerMap(BTreeNew))>>)],
          [class |-> "ill_typed",
           value |-> SerObject(<<SerField(EVENT_MAP, SerMap(BTreeNew)),
                                 SerField(FUNC_MAP, SerArray(<<>>))>>)]}

\* an entry produced by encoding a table
AppendEncoded ==
    /\ \E t \in SampleTables : Push(encode_table(t), "encoded")
    /\ UNCHANGED <<event_signature_map, callable_function_map, phase, codecVars, optVars>>

\* an entry of another subsystem, under its own key
AppendForeign ==
    /\ \E k \in ForeignKeys, v \in ForeignValues : Push(Metadata(k, v), "foreign")
    /\ UNCHANGED <<event_signature_map, callable_function_map, phase, codecVars, optVars>>

\* a corrupt entry under the reserved key
AppendMalformed ==
    /\ \E m \in MalformedPayloads : Push(Metadata(ABI_MOVE_KEY, m.value), m.class)
    /\ UNCHANGED <<event_signature_map, callable_function_map, phase, codecVars, optVars>>

----------------------------------------------------------------------------
(* The codec round trip on arbitrary tables *)

Idents == {<<97, 98>>, <<98>>, <<195, 169>>}

SortedSeq(S) == CHOOSE o \in Orders(S) : \A i \in 1..Len(o) - 1 : StrLess(o[i], o[i + 1])

\* every BTreeMap with at most MaxEntries keys among Idents
Maps ==
    UNION {{[i \in 1..Cardinality(S) |-> [k |-> SortedSeq(S)[i], v |-> f[SortedSeq(S)[i]]]] :
               f \in [S -> SampleSigs]} :
           S \in {S \in SUBSET Idents : Cardinality(S) <= MaxEntries}}

Tables == [event_map : Maps, func_map : Maps]

\* lines 47-54 on the table
EncodeTable ==
    /\ entry = None
    /\ entry' = Some(encode_table(table))
    /\ UNCHANGED <<table, decoded, abiVars, optVars>>

\* parse_metadata_to_move_sig on the entry just built
DecodeEntry ==
    /\ entry # None
    /\ decoded = None
    /\ decoded' = Some(parse_metadata_to_move_sig(entry[1]))
    /\ UNCHANGED <<table, entry, abiVars, optVars>>

InitCodec ==
    /\ table \in Tables
    /\ entry = None
    /\ decoded = None

----------------------------------------------------------------------------
(* options.rs *)

NumRepresentation == {"Int", "Bv", "Auto"}

integer_representation_wide(self) == self \in {"Int", "Auto"}

\* lines 37-40
integer_representation(self) == self = "Int"
\* lines 41-44
bv_representation(self) == self = "Bv"
\* lines 45-48
auto_representation(self) == self = "Auto"

\* line 30: #[default] Int
NumRepresentationDefault == "Int"

\* derive(Default) for ModelBuilderOptions
ModelBuilderOptionsDefault ==
    [ignore_pragma_opaque_internal_only |-> FALSE,
     ignore_pragma_opaque_when_possible |-> FALSE,
     simplification_pipeline |-> <<>>,
     num_repr |-> NumRepresentationDefault]

\* the fields of the struct, lines 15-25
RecognizedFields ==
    {"ignore_pragma_opaque_internal_only", "ignore_pragma_opaque_when_possible",
     "simplification_pipeline", "num_repr"}

\* the variants of SimplificationPass
SimplificationPasses == {"Inline"}

\* values of a configuration document
VBool(b) == [t |-> "bool", b |-> b, s |-> "", items |-> <<>>]
VStr(s) == [t |-> "str", b |-> FALSE, s |-> s, items |-> <<>>]
VSeq(items) == [t |-> "seq", b |-> FALSE, s |-> "", items |-> items]

\* whether a value deserializes to the field's type
FieldOk(f, v) ==
    CASE f \in {"ignore_pragma_opaque_internal_only", "ignore_pragma_opaque_when_possible"} ->
           v.t = "bool"
      [] f = "simplification_pipeline" ->
           v.t = "seq" /\ \A i \in 1..Len(v.items) : v.items[i] \in SimplificationPasses
      [] f = "num_repr" -> v.t = "str" /\ v.s \in NumRepresentation
      [] OTHER -> FALSE

FieldValue(f, v) ==
    CASE f \in {"ignore_pragma_opaque_internal_only", "ignore_pragma_opaque_when_possible"} -> v.b
      [] f = "simplification_pipeline" -> v.items
      [] f = "num_repr" -> v.s

DeserializeIgnoringUnknown(d) ==
    IF \E f \in DOMAIN d \cap RecognizedFields : ~FieldOk(f, d[f])
    THEN [kind |-> "err", value |-> None]
    ELSE [kind |-> "ok",
          value |-> Some([f \in RecognizedFields |->
                            IF f \in DOMAIN d THEN FieldValue(f, d[f])
                            ELSE ModelBuilderOptionsDefault[f]])]

\* derive(Deserialize) with serde(default, deny_unknown_fields), lines 9-11:
\* a field that is not one of the struct's is an error, a field of the
\* wrong type is an error, a missing field is taken from Default::default()
Deserialize(d) ==
    IF \E f \in DOMAIN d : f \notin RecognizedFields \/ ~FieldOk(f, d[f])
    THEN [kind |-> "err", value |-> None]
    ELSE [kind |-> "ok",
          value |-> Some([f \in RecognizedFields |->
                            IF f \in DOMAIN d THEN FieldValue(f, d[f])
                            ELSE ModelBuilderOptionsDefault[f]])]

\* the values a document may give a field: well typed and ill typed
Pipelines == UNION {[1..n -> SimplificationPasses \cup {"Bogus"}] : n \in 0..MaxPipeline}

DocValues(f) ==
    CASE f \in {"ignore_pragma_opaque_internal_only", "ignore_pragma_opaque_when_possible"} ->
           {VBool(TRUE), VBool(FALSE), VStr("yes")}
      [] f = "simplification_pipeline" -> {VSeq(p) : p \in Pipelines} \cup {VBool(TRUE)}
      [] f = "num_repr" -> {VStr(n) : n \in NumRepresentation} \cup {VStr("Float"), VBool(TRUE)}
      [] OTHER -> {VBool(TRUE)}

DocFields == RecognizedFields \cup {"verbose"}

Documents ==
    UNION {{d \in [S -> UNION {DocValues(f) : f \in DocFields}] :
               \A f \in S : d[f] \in DocValues(f)} : S \in SUBSET DocFields}

\* ModelBuilderOptions::default(), for another run
DefaultOptions ==
    /\ loaded.kind # "default"
    /\ doc' = <<>>
    /\ loaded' = [kind |-> "default", value |-> Some(ModelBuilderOptionsDefault)]
    /\ selector' = None
    /\ UNCHANGED <<abiVars, codecVars>>

\* the options are deserialized from a configuration document, once, before
\* model building
LoadOptions ==
    /\ loaded.kind = "default"
    /\ \E d \in Documents :
         /\ doc' = d
         /\ loaded' = Deserialize(d)
    /\ selector' = None
    /\ UNCHANGED <<abiVars, codecVars>>

\* the model builder asks which representation is selected
SelectRepresentation ==
    /\ loaded.value # None
    /\ selector = None
    /\ LET n == loaded.value[1].num_repr IN
         selector' = Some([int |-> integer_representation(n),
                           bv |-> bv_representation(n),
                           auto |-> auto_representation(n)])
    /\ UNCHANGED <<doc, loaded, abiVars, codecVars>>

InitOptions ==
    /\ doc = <<>>
    /\ loaded = [kind |-> "default", value |-> Some(ModelBuilderOptionsDefault)]
    /\ selector = None

----------------------------------------------------------------------------
(* Specifications *)

\* ABI assembly: the registries are filled, the metadata is generated and
\* read back
Init == InitAbi /\ InitCodecIdle /\ InitOptions
Next == RegisterEvent \/ RegisterFunction \/ GenerateAbiMoveMetadata \/ ParseMetadataToMoveSig
Spec == Init /\ [][Next]_vars

\* the decoder on a metadata store filled by any producer
NextStore == AppendEncoded \/ AppendForeign \/ AppendMalformed \/ ParseMetadataToMoveSig
SpecStore == Init /\ [][NextStore]_vars

\* encode and decode of an arbitrary table
InitRoundTrip == InitAbi /\ InitCodec /\ InitOptions
NextCodec == EncodeTable \/ DecodeEntry
SpecCodec == InitRoundTrip /\ [][NextCodec]_vars

\* the model builder options
NextOptions == DefaultOptions \/ LoadOptions \/ SelectRepresentation
SpecOptions == Init /\ [][NextOptions]_vars


----------------------------------------------------------------------------
(* Properties *)

Generated(i) == i \in 1..Len(store) /\ origin[i] = "generated"
Parsed(i) == i \in 1..Len(store) /\ results[i] # Pending
Reserved(i) == i \in 1..Len(store) /\ store[i].key = ABI_MOVE_KEY

\* C1 (round trip): parsing the entry built from a table T returns Some of
\* a table equal to T, whose two maps have the keys of T's maps in the same
\* ascending order.
RoundTrip ==
    decoded # None =>
        /\ decoded[1] = RetSome(table)
        /\ decoded[1].kind = "Some"
        /\ Keys(decoded[1].table[1].event_map) = Keys(table.event_map)
        /\ Keys(decoded[1].table[1].func_map) = Keys(table.func_map)
        /\ IsSorted(decoded[1].table[1].event_map)
        /\ IsSorted(decoded[1].table[1].func_map)

RoundTripWitness ==
    /\ decoded # None
    /\ decoded[1].kind = "Some"
    /\ Len(table.event_map) = 2
    /\ Len(table.func_map) = 1
    /\ table.event_map[1].k = <<97, 98>>
    /\ table.event_map[2].k = <<195, 169>>

\* C2 (determinism): all metadata generated from one context are equal,
\* whatever the order in which the registries enumerated their keys, and
\* the maps serialized in them are in ascending key order.
Determinism ==
    \A i, j \in 1..Len(store) :
        Generated(i) /\ Generated(j) =>
            /\ store[i] = store[j]
            /\ IsSorted(from_str(store[i].value).v.event_map)
            /\ IsSorted(from_str(store[i].value).v.func_map)

\* C3 (key isolation): parsing an entry whose key is not the reserved key
\* returns None, and does not panic, whatever the key and value bytes.
KeyIsolation ==
    \A i \in 1..Len(store) : Parsed(i) /\ ~Reserved(i) => results[i] = RetNone

\* C4 (duplicate detection): when a store holds two entries under the
\* reserved key, decoding it reports DuplicateMetadataKeyError.
DuplicateDetection ==
    \A i, j \in 1..Len(store) :
        i # j /\ Reserved(i) /\ Reserved(j) /\ Parsed(i) /\ Parsed(j) =>
            \E n \in 1..Len(store) : results[n].kind = "DuplicateMetadataKeyError"

\* C5 (malformed payload): parsing an entry under the reserved key whose
\* value is not UTF-8, not a JSON text, or lacks or mistypes event_map or
\* func_map fails (the error is raised by unwrap, as a panic), which is
\* not the None of a missing key, and returns no table.
MalformedClasses == {"invalid_utf8", "truncated", "missing_field", "ill_typed"}

ShapeOk(m) ==
    /\ m.key = ABI_MOVE_KEY
    /\ ValueIsUtf8(m.value)
    /\ LET r == ParseJson(m.value) IN
         /\ r.ok
         /\ r.v.t = "obj"
         /\ [i \in 1..Len(r.v.kids) |-> r.v.kids[i].k] = <<EVENT_MAP, FUNC_MAP>>
         /\ \A i \in 1..Len(r.v.kids) : r.v.kids[i].v.t = "obj"

EncodeShape ==
    [][origin' # origin =>
         /\ Len(store') = Len(store) + 1
         /\ SubSeq(store', 1, Len(store)) = store
         /\ ShapeOk(store'[Len(store')])]_vars

EncodeShapeWitness ==
    /\ Generated(1)
    /\ DOMAIN event_signature_map = {}
    /\ DOMAIN callable_function_map = {}
    /\ store[1].value = SerTable(EmptyTable)

\* C7 (configuration rejection): a document with a field outside the
\* recognized set is rejected and yields no options value; a document with
\* only recognized fields (of the fields' types) loads, each absent field
\* taking its default (false, false, empty pipeline, Int) and each present
\* field its value.
GoodValues(f) ==
    CASE f \in {"ignore_pragma_opaque_internal_only", "ignore_pragma_opaque_when_possible"} ->
           {VBool(TRUE), VBool(FALSE)}
      [] f = "simplification_pipeline" ->
           {VSeq(p) : p \in UNION {[1..n -> {"Inline"}] : n \in 0..MaxPipeline}}
      [] f = "num_repr" -> {VStr("Int"), VStr("Bv"), VStr("Auto")}
      [] OTHER -> {}

ConfigurationRejection ==
    loaded.kind # "default" =>
        /\ (\E f \in DOMAIN doc : f \notin {"ignore_pragma_opaque_internal_only",
                                            "ignore_pragma_opaque_when_possible",
                                            "simplification_pipeline", "num_repr"})
              => loaded.kind = "err" /\ loaded.value = None
        /\ (/\ DOMAIN doc \subseteq {"ignore_pragma_opaque_internal_only",
                                     "ignore_pragma_opaque_when_possible",
                                     "simplification_pipeline", "num_repr"}
            /\ \A f \in DOMAIN doc : doc[f] \in GoodValues(f))
              => /\ loaded.kind = "ok"
                 /\ Len(loaded.value) = 1
                 /\ LET o == loaded.value[1] IN
                      /\ o.ignore_pragma_opaque_internal_only =
                           IF "ignore_pragma_opaque_internal_only" \in DOMAIN doc
                           THEN doc["ignore_pragma_opaque_internal_only"].b ELSE FALSE
                      /\ o.ignore_pragma_opaque_when_possible =
                           IF "ignore_pragma_opaque_when_possible" \in DOMAIN doc
                           THEN doc["ignore_pragma_opaque_when_possible"].b ELSE FALSE
                      /\ o.simplification_pipeline =
                           IF "simplification_pipeline" \in DOMAIN doc
                           THEN doc["simplification_pipeline"].items ELSE <<>>
                      /\ o.num_repr =
                           IF "num_repr" \in DOMAIN doc THEN doc["num_repr"].s ELSE "Int"

ConfigurationRejectionWitness ==
    /\ loaded.kind = "err"
    /\ DOMAIN doc = {"num_repr", "verbose"}
    /\ doc["num_repr"] = VStr("Bv")

\* C8 (completeness of assembly): the generated table has exactly one
\* event_map entry per registered event key and one func_map entry per
\* registered function key, under the item's declared identifier and
\* holding the translation of the item's own signature and attribute.
Completeness ==
    \A i \in 1..Len(store) :
        Generated(i) =>
            LET t == from_str(store[i].value).v IN
              /\ Len(t.event_map) = Cardinality(DOMAIN event_signature_map)
              /\ Len(t.func_map) = Cardinality(DOMAIN callable_function_map)
              /\ \A key \in DOMAIN event_signature_map :
                   /\ HasKey(t.event_map, key.name)
                   /\ Get(t.event_map, key.name) = from_event_sig(event_signature_map[key])
              /\ \A key \in DOMAIN callable_function_map :
                   /\ HasKey(t.func_map, key.name)
                   /\ Get(t.func_map, key.name) =
                        from_solidity_sig(callable_function_map[key][1],
                                          Some(callable_function_map[key][2]), K_FUNCTION)

\* C9 (read-only context): a call of generate_abi_move_metadata leaves both
\* registries as they were, and a call of parse_metadata_to_move_sig leaves
\* the registries and the metadata entries as they were.
ReadOnlyContext ==
    [][(origin' # origin \/ results' # results) =>
         /\ event_signature_map' = event_signature_map
         /\ callable_function_map' = callable_function_map
         /\ (Len(results') = Len(results) => store' = store)]_vars

ReadOnlyContextWitness ==
    /\ Len(store) = 2
    /\ Generated(1) /\ Generated(2)
    /\ results[1].kind = "Some"
    /\ Cardinality(DOMAIN event_signature_map) = 2
    /\ Cardinality(DOMAIN callable_function_map) = 1

\* C10 (numeric representation selector): exactly one of the three
\* predicates is true, integer_representation for Int, bv_representation
\* for Bv and auto_representation for Auto; default-constructed options
\* have both flags false, an empty pipeline and Int.
NumericSelector ==
    /\ selector # None =>
         LET r == selector[1]
             n == loaded.value[1].num_repr
         IN /\ Cardinality({p \in {"int", "bv", "auto"} : r[p]}) = 1
            /\ r.int <=> n = "Int"
            /\ r.bv <=> n = "Bv"
            /\ r.auto <=> n = "Auto"
    /\ loaded.kind = "default" =>
         loaded.value = <<[ignore_pragma_opaque_internal_only |-> FALSE,
                           ignore_pragma_opaque_when_possible |-> FALSE,
                           simplification_pipeline |-> <<>>,
                           num_repr |-> "Int"]>>

NumericSelectorWitness ==
    /\ selector # None
    /\ loaded.kind = "ok"
    /\ loaded.value[1].num_repr = "Auto"
    /\ selector[1].auto

============================================================================
